---------------------------- MODULE Spec2Model ----------------------------
(***************************************************************************)
(* FinanceFlow (src/src/App.jsx): the mock SharePoint data provider, the   *)
(* useSharePointData hook, the TransactionTable sort and the MetricCards   *)
(* percent change, as state machines.                                      *)
(*                                                                         *)
(* JavaScript values are records [kind, items, name]: an array carries its *)
(* elements in items, a function or a plain object carries its name.       *)
(* Metric Value and PreviousValue are held in tenths, the unit in which    *)
(* the literals 18.5 and 12.3 are integers.                                *)
(***************************************************************************)
EXTENDS Integers, Sequences, FiniteSets, TLC

VARIABLES
    promises,            \* SharePointService.getListItems calls, in call order
    data,                \* useSharePointData: data of each hook instance
    loading,             \* useSharePointData: loading of each hook instance
    error,               \* useSharePointData: error of each hook instance
    fetchState,          \* position of each instance's fetchData
    completions,         \* the instances whose fetchData has finished, in order
    order,               \* TransactionTable: order
    orderBy,             \* TransactionTable: orderBy
    sortedTransactions,  \* TransactionTable: the memoised sorted view
    engine,              \* the algorithm behind Array.prototype.sort
    sidebarOpen,         \* FinanceFlowApp: sidebarOpen
    isDarkMode,          \* FinanceFlowApp: isDarkMode
    current,             \* calculateChange: first argument
    previous,            \* calculateChange: second argument
    changePercent,       \* calculateChange: the value returned
    listName,            \* one more instance: the listName of its last render
    instance,            \* that instance's data, loading, error
    fetches,             \* its fetchData calls waiting for their timer
    effectDue,           \* a render changed listName, the effect has not run
    started,             \* the number of fetchData calls it has made
    budget,              \* BudgetOverview: the budget of one row
    budgetRow,           \* BudgetOverview: what the row shows
    transaction,         \* TransactionTable: the transaction of one row
    amountCell           \* TransactionTable: what the Amount cell shows

vars == << promises, data, loading, error, fetchState, completions, order,
           orderBy, sortedTransactions, engine, sidebarOpen, isDarkMode,
           current, previous, changePercent, listName, instance, fetches,
           effectDue, started, budget, budgetRow, transaction, amountCell >>

providerVars == << promises >>
hookVars == << data, loading, error, fetchState, completions >>
tableVars == << order, orderBy, sortedTransactions >>
appVars == << sidebarOpen, isDarkMode >>
changeVars == << current, previous, changePercent >>
instanceVars == << listName, instance, fetches, effectDue, started >>
rowVars == << budget, budgetRow, transaction, amountCell >>

(***************************************************************************)
(* JavaScript values                                                       *)
(***************************************************************************)
Arr(items) == [kind |-> "array", items |-> items, name |-> ""]
Fn(name) == [kind |-> "function", items |-> << >>, name |-> name]
Obj(name) == [kind |-> "object", items |-> << >>, name |-> name]
Undefined == [kind |-> "undefined", items |-> << >>, name |-> ""]
Str(s) == [kind |-> "string", items |-> << >>, name |-> s]
Null == [kind |-> "null", items |-> << >>, name |-> ""]

\* ToBoolean, for the values a property read of mockData can give
Truthy(v) == v.kind \in {"array", "function", "object"}

\* ToPropertyKey, for the values a caller passes as listTitle
ToPropertyKey(v) == IF v.kind = "string" THEN v.name ELSE v.kind

Reverse(s) == [i \in 1..Len(s) |-> s[Len(s) + 1 - i]]

(***************************************************************************)
(* The compiled-in table of getMockData                                    *)
(***************************************************************************)
Financial_Transactions ==
    << [Id |-> 1, Title |-> "Q2 Revenue", Amount |-> 125000,
        Category |-> "Income", Date |-> "2025-06-01T00:00:00Z",
        Status |-> "Completed"],
       [Id |-> 2, Title |-> "Office Operations", Amount |-> -15000,
        Category |-> "Operating Expense", Date |-> "2025-06-02T00:00:00Z",
        Status |-> "Completed"],
       [Id |-> 3, Title |-> "Marketing Campaign", Amount |-> -8500,
        Category |-> "Marketing", Date |-> "2025-06-03T00:00:00Z",
        Status |-> "Pending"],
       [Id |-> 4, Title |-> "Software Licenses", Amount |-> -3200,
        Category |-> "Technology", Date |-> "2025-06-04T00:00:00Z",
        Status |-> "Completed"] >>

Budget_Categories ==
    << [Id |-> 1, Title |-> "Marketing", Allocated |-> 15000, Spent |-> 12500],
       [Id |-> 2, Title |-> "Technology", Allocated |-> 8000, Spent |-> 6200],
       [Id |-> 3, Title |-> "Operations", Allocated |-> 25000, Spent |-> 18300],
       [Id |-> 4, Title |-> "Travel", Allocated |-> 5000, Spent |-> 1200] >>

\* Value and PreviousValue in tenths
Company_Metrics ==
    << [Id |-> 1, Title |-> "Total Revenue", Value |-> 1250000,
        PreviousValue |-> 1100000],
       [Id |-> 2, Title |-> "Operating Expenses", Value |-> 520000,
        PreviousValue |-> 580000],
       [Id |-> 3, Title |-> "Net Profit", Value |-> 730000,
        PreviousValue |-> 520000],
       [Id |-> 4, Title |-> "Growth Rate", Value |-> 185,
        PreviousValue |-> 123] >>

\* the own property names of the object literal mockData
OwnKeys == {"Financial_Transactions", "Budget_Categories", "Company_Metrics"}

\* the property names every object literal inherits from Object.prototype
InheritedFunctionKeys ==
    {"constructor", "toString", "toLocaleString", "valueOf", "hasOwnProperty",
     "isPrototypeOf", "propertyIsEnumerable"}

\* mockData[key]: an own property, else the prototype chain, else undefined
mockData(key) ==
    CASE key = "Financial_Transactions" -> Arr(Financial_Transactions)
      [] key = "Budget_Categories" -> Arr(Budget_Categories)
      [] key = "Company_Metrics" -> Arr(Company_Metrics)
      [] key \in InheritedFunctionKeys ->
            Fn(IF key = "constructor" THEN "Object" ELSE key)
      [] key = "__proto__" -> Obj("Object.prototype")
      [] OTHER -> Undefined

\* a plausible slip: one record of a recognised list is dropped
getMockDataDropsLast(listTitle) ==
    LET v == mockData(ToPropertyKey(listTitle))
    IN  IF v.kind = "array" /\ Len(v.items) > 0
        THEN Arr(SubSeq(v.items, 1, Len(v.items) - 1))
        ELSE IF Truthy(v) THEN v ELSE Arr(<< >>)

\* return mockData[listTitle] || []
getMockData(listTitle) ==
    LET v == mockData(ToPropertyKey(listTitle))
    IN  IF Truthy(v) THEN v ELSE Arr(<< >>)

\* a plausible slip: a list that is not found makes the call fail
getListItemsRejectsUnknown(siteUrl, listTitle, selectFields) ==
    IF mockData(ToPropertyKey(listTitle)) = Undefined
    THEN [state |-> "rejected", value |-> Undefined]
    ELSE [state |-> "fulfilled", value |-> getMockData(listTitle)]

\* what the promise of getListItems is settled with once the delay is over
getListItems(siteUrl, listTitle, selectFields) ==
    [state |-> "fulfilled", value |-> getMockData(listTitle)]

(***************************************************************************)
(* Callers of the provider: arguments drawn from small sets                *)
(***************************************************************************)
MaxCalls == 2

SiteUrls == {"http://localhost:3000", "https://contoso.sharepoint.com"}

\* selectFields: omitted (the default '*' applies) or given
SelectFields == {Undefined, Str("Id,Title")}

ListTitles ==
    {Str(k) : k \in OwnKeys} \cup
    {Str(""), Undefined, Str("financial_transactions"), Str("Unknown_List"),
     Str("constructor"), Str("toString"), Str("__proto__")}

\* value is what the call returned; held is the same object in its present
\* state, which the caller may have changed; afterChange tells that the call
\* returned after a caller had changed what an earlier call for the same
\* name returned
Pending(siteUrl, listTitle, selectFields) ==
    [siteUrl |-> siteUrl, listTitle |-> listTitle,
     selectFields |-> IF selectFields = Undefined THEN Str("*") ELSE selectFields,
     state |-> "pending", value |-> Undefined, held |-> Undefined,
     afterChange |-> FALSE]

\* getListItems is called: the promise is pending until the delay is over
CallGetListItems(siteUrl, listTitle, selectFields) ==
    /\ Len(promises) < MaxCalls
    /\ promises' = Append(promises, Pending(siteUrl, listTitle, selectFields))
    /\ UNCHANGED << hookVars, tableVars, appVars, changeVars, engine,
                    instanceVars, rowVars >>

\* a plausible slip: mockData hoisted out of getMockData, one object for all
\* calls, so that two calls for one name return the same array
SameArrayWhenHoisted(p, q) ==
    ToPropertyKey(p.listTitle) = ToPropertyKey(q.listTitle)

\* Do two calls return the same array object?  Never: const mockData = {..}
\* is evaluated inside getMockData, every call builds its own arrays.
SameArray(p, q) == FALSE

\* the fulfilled calls whose array is the one that call p returns
Aliases(p) ==
    {j \in 1..Len(promises) :
        /\ promises[j].state = "fulfilled"
        /\ promises[j].held.kind = "array"
        /\ SameArray(promises[j], p)}

\* the setTimeout of call i fires: the call returns { value: getMockData(..) }
DelayElapsed(i) ==
    /\ i \in 1..Len(promises)
    /\ promises[i].state = "pending"
    /\ LET p == promises[i]
           r == getListItems(p.siteUrl, p.listTitle, p.selectFields)
           same == Aliases(p)
           value == IF same = {} \/ r.value.kind # "array"
                    THEN r.value
                    ELSE promises[CHOOSE j \in same : TRUE].held
           earlier == {j \in 1..Len(promises) :
                          /\ promises[j].state = "fulfilled"
                          /\ ToPropertyKey(promises[j].listTitle) =
                                 ToPropertyKey(p.listTitle)
                          /\ promises[j].held # promises[j].value}
       IN  promises' = [promises EXCEPT ![i] =
                           [p EXCEPT !.state = r.state, !.value = value,
                                     !.held = value,
                                     !.afterChange = earlier # {}]]
    /\ UNCHANGED << hookVars, tableVars, appVars, changeVars, engine,
                    instanceVars, rowVars >>

\* the caller of call i reverses, in place, the array it was given
CallerReverses(i) ==
    /\ i \in 1..Len(promises)
    /\ promises[i].state = "fulfilled"
    /\ promises[i].held.kind = "array"
    /\ Len(promises[i].held.items) > 1
    /\ LET changed == Aliases(promises[i]) \cup {i}
           reversed == Arr(Reverse(promises[i].held.items))
       IN  promises' = [j \in 1..Len(promises) |->
                           IF j \in changed
                           THEN [promises[j] EXCEPT !.held = reversed]
                           ELSE promises[j]]
    /\ UNCHANGED << hookVars, tableVars, appVars, changeVars, engine,
                    instanceVars, rowVars >>

(***************************************************************************)
(* JavaScript's < and > on the field values of a record                    *)
(***************************************************************************)
\* the UTF-16 code units of the strings that occur as field values
CodeUnits ==
     ("Q2 Revenue" :> <<81, 50, 32, 82, 101, 118, 101, 110, 117, 101>>) @@
     ("Office Operations" :> <<79, 102, 102, 105, 99, 101, 32, 79, 112, 101, 114, 97, 116, 105, 111, 110, 115>>) @@
     ("Marketing Campaign" :> <<77, 97, 114, 107, 101, 116, 105, 110, 103, 32, 67, 97, 109, 112, 97, 105, 103, 110>>) @@
     ("Software Licenses" :> <<83, 111, 102, 116, 119, 97, 114, 101, 32, 76, 105, 99, 101, 110, 115, 101, 115>>) @@
     ("Income" :> <<73, 110, 99, 111, 109, 101>>) @@
     ("Operating Expense" :> <<79, 112, 101, 114, 97, 116, 105, 110, 103, 32, 69, 120, 112, 101, 110, 115, 101>>) @@
     ("Marketing" :> <<77, 97, 114, 107, 101, 116, 105, 110, 103>>) @@
     ("Technology" :> <<84, 101, 99, 104, 110, 111, 108, 111, 103, 121>>) @@
     ("2025-06-01T00:00:00Z" :> <<50, 48, 50, 53, 45, 48, 54, 45, 48, 49, 84, 48, 48, 58, 48, 48, 58, 48, 48, 90>>) @@
     ("2025-06-02T00:00:00Z" :> <<50, 48, 50, 53, 45, 48, 54, 45, 48, 50, 84, 48, 48, 58, 48, 48, 58, 48, 48, 90>>) @@
     ("2025-06-03T00:00:00Z" :> <<50, 48, 50, 53, 45, 48, 54, 45, 48, 51, 84, 48, 48, 58, 48, 48, 58, 48, 48, 90>>) @@
     ("2025-06-04T00:00:00Z" :> <<50, 48, 50, 53, 45, 48, 54, 45, 48, 52, 84, 48, 48, 58, 48, 48, 58, 48, 48, 90>>) @@
     ("Completed" :> <<67, 111, 109, 112, 108, 101, 116, 101, 100>>) @@
     ("Pending" :> <<80, 101, 110, 100, 105, 110, 103>>)

\* string < string: lexicographic on code units, a proper prefix is smaller
StringLess(s, t) ==
    LET u == CodeUnits[s]
        v == CodeUnits[t]
    IN  \E i \in 1..Len(v) :
            /\ i - 1 <= Len(u)
            /\ \A j \in 1..(i - 1) : u[j] = v[j]
            /\ \/ i = Len(u) + 1
               \/ u[i] < v[i]

\* the fields whose values are numbers; the values of the others are strings
NumberFields == {"Id", "Amount"}

\* x < y for two values of field
LessThan(x, y, field) ==
    IF field \in NumberFields THEN x < y ELSE StringLess(x, y)

\* x > y for two values of field
GreaterThan(x, y, field) == LessThan(y, x, field)

(***************************************************************************)
(* TransactionTable: the comparator and the sort                           *)
(***************************************************************************)
\* a plausible slip: the direction is ignored
compareIgnoresOrder(a, b, ord, by) ==
    IF LessThan(a[by], b[by], by) THEN -1 ELSE 1

\* a plausible slip: the two directions are exchanged
compareSwapped(a, b, ord, by) ==
    IF ord = "desc"
    THEN (IF LessThan(a[by], b[by], by) THEN -1 ELSE 1)
    ELSE (IF GreaterThan(a[by], b[by], by) THEN -1 ELSE 1)

\* the function passed to sort
compare(a, b, ord, by) ==
    IF ord = "asc"
    THEN (IF LessThan(a[by], b[by], by) THEN -1 ELSE 1)
    ELSE (IF GreaterThan(a[by], b[by], by) THEN -1 ELSE 1)

\* The comparator never returns 0, so it is no consistent comparator and the
\* order Array.prototype.sort produces is implementation-defined.  The two
\* algorithms engines run on short arrays are modelled: insertion by binary
\* search after a first run is taken (comparefn(pivot, element)), and plain
\* insertion that moves an element up while comparefn(element, item) > 0.
Engines == {"binaryInsertion", "linearInsertion"}

RECURSIVE RunEnd(_, _, _, _, _)
\* the last index of the run that starts at 1, scanning from idx
RunEnd(arr, idx, descending, ord, by) ==
    IF idx > Len(arr) THEN idx - 1
    ELSE LET o == compare(arr[idx], arr[idx - 1], ord, by)
         IN  IF (descending /\ o >= 0) \/ (~descending /\ o < 0)
             THEN idx - 1
             ELSE RunEnd(arr, idx + 1, descending, ord, by)

RECURSIVE BinarySearch(_, _, _, _, _, _)
\* where pivot goes in arr[left..right-1]
BinarySearch(arr, pivot, left, right, ord, by) ==
    IF left >= right THEN left
    ELSE LET mid == left + ((right - left) \div 2)
         IN  IF compare(pivot, arr[mid], ord, by) < 0
             THEN BinarySearch(arr, pivot, left, mid, ord, by)
             ELSE BinarySearch(arr, pivot, mid + 1, right, ord, by)

\* arr with the element at index from moved to index to (to <= from)
MoveDown(arr, from, to) ==
    SubSeq(arr, 1, to - 1) \o << arr[from] >> \o SubSeq(arr, to, from - 1)
        \o SubSeq(arr, from + 1, Len(arr))

RECURSIVE BinaryInsertionSort(_, _, _, _)
BinaryInsertionSort(arr, start, ord, by) ==
    IF start > Len(arr) THEN arr
    ELSE LET left == BinarySearch(arr, arr[start], 1, start, ord, by)
         IN  BinaryInsertionSort(MoveDown(arr, start, left), start + 1, ord, by)

\* the first run is counted and made ascending, the rest is inserted
SortBinaryInsertion(arr, ord, by) ==
    IF Len(arr) < 2 THEN arr
    ELSE LET descending == compare(arr[2], arr[1], ord, by) < 0
             runEnd == RunEnd(arr, 3, descending, ord, by)
             run == SubSeq(arr, 1, runEnd)
             made == (IF descending THEN Reverse(run) ELSE run)
                         \o SubSeq(arr, runEnd + 1, Len(arr))
         IN  BinaryInsertionSort(made, runEnd + 1, ord, by)

RECURSIVE InsertPosition(_, _, _, _, _)
\* where item goes, scanning arr[1..j] downwards
InsertPosition(arr, item, j, ord, by) ==
    IF j < 1 THEN 1
    ELSE IF compare(arr[j], item, ord, by) <= 0 THEN j + 1
    ELSE InsertPosition(arr, item, j - 1, ord, by)

RECURSIVE LinearInsertionSort(_, _, _, _)
LinearInsertionSort(arr, i, ord, by) ==
    IF i > Len(arr) THEN arr
    ELSE LET to == InsertPosition(arr, arr[i], i - 1, ord, by)
         IN  LinearInsertionSort(MoveDown(arr, i, to), i + 1, ord, by)

\* Array.prototype.sort with the table's comparator, on engine eng
ArraySort(arr, ord, by, eng) ==
    IF eng = "binaryInsertion"
    THEN SortBinaryInsertion(arr, ord, by)
    ELSE LinearInsertionSort(arr, 2, ord, by)

\* the body of the useMemo: [...transactions].sort(compare)
sortTransactions(transactions, ord, by, eng) ==
    IF transactions.kind = "array"
    THEN ArraySort(transactions.items, ord, by, eng)
    ELSE << >>

\* the column headers, each a sort request when clicked
Headers == {"Title", "Amount", "Category", "Date", "Status"}

\* a plausible slip: transactions.sort(..) without the copy; sort works in
\* place, so the array that the hook holds is reordered as well
useMemoSortsInPlace(transactions, ord, by, eng) ==
    LET sorted == sortTransactions(transactions, ord, by, eng)
    IN  [sortedTransactions |-> sorted,
         transactions |-> IF transactions.kind = "array"
                          THEN Arr(sorted) ELSE transactions]

\* The useMemo callback: the value it returns, and the state in which it
\* leaves the array it was given; [...transactions] is a new array, and
\* sort reorders that one.
useMemo(transactions, ord, by, eng) ==
    [sortedTransactions |-> sortTransactions(transactions, ord, by, eng),
     transactions |-> transactions]

(***************************************************************************)
(* Numbers: IEEE 754 binary64 arithmetic on m * 2^e, where m is a natural  *)
(* number held as its digits to the base 256, least significant first      *)
(* (53 bits do not fit a 32-bit integer of TLC)                            *)
(***************************************************************************)
\* the significand width of a JavaScript number
DoublePrecision == 53

\* the width of one digit
DigitBits == 8

DigitBase == 2 ^ DigitBits

\* a without its leading zero digits
Normalize(a) ==
    LET used == {i \in 1..Len(a) : a[i] # 0}
    IN  IF used = {} THEN << >>
        ELSE SubSeq(a, 1, CHOOSE i \in used : \A j \in used : j <= i)

RECURSIVE MulCarry(_, _, _)
MulCarry(a, k, carry) ==
    IF a = << >>
    THEN (IF carry = 0 THEN << >>
          ELSE << carry % DigitBase >> \o MulCarry(a, k, carry \div DigitBase))
    ELSE LET t == Head(a) * k + carry
         IN  << t % DigitBase >> \o MulCarry(Tail(a), k, t \div DigitBase)

\* a * k for a small integer k
MulSmall(a, k) == MulCarry(a, k, 0)

RECURSIVE Increment(_)
\* a + 1
Increment(a) ==
    IF a = << >> THEN << 1 >>
    ELSE IF Head(a) + 1 < DigitBase THEN << Head(a) + 1 >> \o Tail(a)
    ELSE << 0 >> \o Increment(Tail(a))

RECURSIVE ToInt(_)
ToInt(a) == IF a = << >> THEN 0 ELSE Head(a) + DigitBase * ToInt(Tail(a))

\* the number of bits of a
BitLength(a) ==
    IF a = << >> THEN 0
    ELSE DigitBits * (Len(a) - 1)
             + (CHOOSE b \in 1..DigitBits :
                    2 ^ (b - 1) <= a[Len(a)] /\ a[Len(a)] < 2 ^ b)

\* bit i of a, bit 0 the least significant
Bit(a, i) ==
    IF (i \div DigitBits) + 1 > Len(a) THEN 0
    ELSE (a[(i \div DigitBits) + 1] \div (2 ^ (i % DigitBits))) % 2

\* one of the bits 0..k-1 of a is set
LowBitsSet(a, k) == \E i \in 0..(k - 1) : Bit(a, i) = 1

\* floor(a / 2^k)
ShiftRight(a, k) ==
    LET w == k \div DigitBits
        s == k % DigitBits
        b == SubSeq(a, w + 1, Len(a))
    IN  Normalize([i \in 1..Len(b) |->
            (b[i] \div (2 ^ s))
            + (IF i < Len(b) THEN (b[i + 1] % (2 ^ s)) * (2 ^ (DigitBits - s))
               ELSE 0)])

\* a * 2^k
ShiftLeft(a, k) ==
    [i \in 1..(k \div DigitBits) |-> 0] \o MulSmall(a, 2 ^ (k % DigitBits))

\* m * 2^e (with sticky: plus a nonzero amount below the last bit of m)
\* rounded to DoublePrecision bits, ties to even
RoundToDouble(m, e, sticky) ==
    LET k == BitLength(m) - DoublePrecision
    IN  IF k <= 0 THEN [m |-> m, e |-> e]
        ELSE LET guard == Bit(m, k - 1)
                 below == sticky \/ LowBitsSet(m, k - 1)
                 kept == ShiftRight(m, k)
                 up == guard = 1 /\ (below \/ Bit(kept, 0) = 1)
             IN  [m |-> IF up THEN Increment(kept) ELSE kept, e |-> e + k]

\* the least s with n * 2^s >= d
ScaleUp(n, d) ==
    CHOOSE s \in 0..30 :
        /\ n >= (d + 2 ^ s - 1) \div (2 ^ s)
        /\ \A u \in 0..(s - 1) : n < (d + 2 ^ u - 1) \div (2 ^ u)

\* the least t with n < d * 2^(t + 1)
ScaleDown(n, d) ==
    CHOOSE t \in 0..29 :
        /\ n \div (2 ^ (t + 1)) < d
        /\ \A u \in 0..(t - 1) : n \div (2 ^ (u + 1)) >= d

RECURSIVE QuotientDigits(_, _, _, _)
\* count more digits of r / d by long division, put below the digits in acc
QuotientDigits(r, d, count, acc) ==
    IF count = 0 THEN [digits |-> acc, rest |-> r]
    ELSE QuotientDigits((r * DigitBase) % d, d, count - 1,
                        << (r * DigitBase) \div d >> \o acc)

\* n / d for integers n, d > 0, as the nearest double: the quotient is scaled
\* into [1, 2) and taken to 1 + 56 bits, which is more than DoublePrecision
DoubleDivide(n, d) ==
    LET s == ScaleUp(n, d)
        t == ScaleDown(n, d)
        n0 == n * (2 ^ s)
        d0 == d * (2 ^ t)
        q == QuotientDigits(n0 - d0, d0, 7, << 1 >>)
    IN  RoundToDouble(q.digits, t - s - 7 * DigitBits, q.rest # 0)

\* x * 100 for a double x > 0, as the nearest double
DoubleTimes100(x) == RoundToDouble(MulSmall(x.m, 100), x.e, FALSE)

\* For a double x > 0, the integer n for which n / 10 - x is as close to zero
\* as possible, the larger n if there are two: floor(10 * x + 1/2).
NearestTenths(x) ==
    LET t == MulSmall(x.m, 10)
        k == 0 - x.e
    IN  IF k <= 0 THEN ToInt(ShiftLeft(t, x.e))
        ELSE ToInt(ShiftRight(t, k)) + Bit(t, k - 1)

(***************************************************************************)
(* MetricCards: calculateChange                                            *)
(***************************************************************************)
\* the strings Number.prototype.toFixed(1) returns
FixedString(negative, tenths) ==
    [kind |-> "string", form |-> "fixed", sign |-> IF negative THEN "-" ELSE "",
     units |-> tenths \div 10, tenth |-> tenths % 10]
InfinityString(negative) ==
    [kind |-> "string", form |-> "Infinity",
     sign |-> IF negative THEN "-" ELSE "", units |-> 0, tenth |-> 0]
NaNString ==
    [kind |-> "string", form |-> "NaN", sign |-> "", units |-> 0, tenth |-> 0]

Abs(x) == IF x < 0 THEN 0 - x ELSE x

\* (numerator / denominator * 100).toFixed(1)
PercentToFixed(numerator, denominator) ==
    IF denominator = 0
    THEN (IF numerator = 0 THEN NaNString ELSE InfinityString(numerator < 0))
    ELSE IF numerator = 0 THEN FixedString(FALSE, 0)
    ELSE FixedString((numerator < 0) # (denominator < 0),
             NearestTenths(DoubleTimes100(
                 DoubleDivide(Abs(numerator), Abs(denominator)))))

\* a plausible slip: the change is taken relative to the current value
calculateChangeOfCurrent(cur, prev) ==
    PercentToFixed(cur - prev, cur)

\* a plausible slip: the quotient is cut after the first decimal, not rounded
calculateChangeTruncated(cur, prev) ==
    IF prev = 0 \/ cur = prev THEN PercentToFixed(cur - prev, prev)
    ELSE FixedString((cur - prev < 0) # (prev < 0),
                     (Abs(cur - prev) * 1000) \div Abs(prev))

\* ((current - previous) / previous * 100).toFixed(1)
calculateChange(cur, prev) ==
    PercentToFixed(cur - prev, prev)

\* a number with one decimal, or one that is not finite
Number(negative, tenths) ==
    [kind |-> "number", form |-> "finite", negative |-> negative,
     tenths |-> tenths]

\* the number a string of toFixed(1) converts to (parseFloat, ==)
ToNumber(s) ==
    IF s.form = "fixed"
    THEN Number(s.sign = "-", 10 * s.units + s.tenth)
    ELSE [kind |-> "number", form |-> s.form, negative |-> s.sign = "-",
          tenths |-> 0]

\* x == y of JavaScript for a result of calculateChange and a number literal
LooseEquals(x, y) ==
    LET nx == IF x.kind = "string" THEN ToNumber(x) ELSE x
    IN  /\ nx.form = "finite"
        /\ y.form = "finite"
        /\ nx.tenths = y.tenths
        /\ (nx.tenths = 0 \/ nx.negative = y.negative)

(***************************************************************************)
(* calculateChange called with any two integers                            *)
(***************************************************************************)
MaxValue == 80

\* the pairs of the dashboard's integer metrics, in whole units
MetricPairs ==
    { << 125000, 110000 >>, << 52000, 58000 >>, << 73000, 52000 >> }

\* two values that differ by less than one twentieth of a percent
NearPairs ==
    { << 20001, 20000 >>, << 19999, 20000 >> }

ChangeArguments ==
    ((-MaxValue..MaxValue) \X (-MaxValue..MaxValue)) \cup MetricPairs
        \cup NearPairs

\* parseFloat(changePercent) > 0
isPositive(percent) ==
    LET n == ToNumber(percent)
    IN  /\ ~n.negative
        /\ \/ n.form = "Infinity"
           \/ n.form = "finite" /\ n.tenths > 0

\* the trend chip of a metric card: icon, label and background colour
trendChip(percent) ==
    [icon |-> IF isPositive(percent) THEN "TrendingUpIcon"
              ELSE "TrendingDownIcon",
     label |-> << IF isPositive(percent) THEN "+" ELSE "", percent, "%" >>,
     backgroundColor |-> IF isPositive(percent) THEN "#10b981" ELSE "#ef4444"]

\* MetricCards is rendered with a metric: calculateChange(Value, PreviousValue)
RenderChange ==
    /\ changePercent = Undefined
    /\ changePercent' = calculateChange(current, previous)
    /\ UNCHANGED << current, previous, hookVars, providerVars, tableVars,
                    appVars, engine,
                    instanceVars, rowVars >>

(***************************************************************************)
(* BudgetOverview: one row                                                 *)
(***************************************************************************)
\* the double 0 and the double 1; a double is m * 2^e
DoubleZero == [m |-> << >>, e |-> 0]
DoubleOne == [m |-> << 1 >>, e |-> 0]

\* n / d for integers n >= 0, d > 0, as the nearest double
Quotient(n, d) == IF n = 0 THEN DoubleZero ELSE DoubleDivide(n, d)

\* x * 100 for a double x >= 0
Times100(x) == IF x.m = << >> THEN DoubleZero ELSE DoubleTimes100(x)

\* floor(a / d) and a % d for a small integer d > 0, by long division from
\* the most significant digit down
DivSmall(a, d) ==
    LET n == Len(a)
        R[i \in 0..n] ==
            IF i = 0 THEN 0 ELSE (R[i - 1] * DigitBase + a[n + 1 - i]) % d
    IN  [quotient |-> Normalize([j \in 1..n |->
                          (R[n - j] * DigitBase + a[j]) \div d]),
         rest |-> R[n]]

\* the bits by which a mantissa is extended before a division
ExtraBits == 64

\* x / 100 for a double x >= 0, as the nearest double
Over100(x) ==
    IF x.m = << >> THEN DoubleZero
    ELSE LET q == DivSmall(ShiftLeft(x.m, ExtraBits), 100)
         IN  RoundToDouble(q.quotient, x.e - ExtraBits, q.rest # 0)

\* x > n for a double x >= 0 and an integer n >= 0
DoubleGreater(x, n) ==
    IF x.m = << >> THEN FALSE
    ELSE IF x.e >= 0 THEN ToInt(ShiftLeft(x.m, x.e)) > n
    ELSE LET floor == ToInt(ShiftRight(x.m, 0 - x.e))
         IN  floor > n \/ (floor = n /\ LowBitsSet(x.m, 0 - x.e))

\* the same double with an odd m, so that equal doubles are equal records
Canonical(x) ==
    IF x.m = << >> THEN DoubleZero
    ELSE LET z == CHOOSE i \in 0..BitLength(x.m) :
                      /\ Bit(x.m, i) = 1
                      /\ \A j \in 0..(i - 1) : Bit(x.m, j) = 0
         IN  [m |-> ShiftRight(x.m, z), e |-> x.e + z]

\* a plausible slip: the value of the progress bar is not capped
progressValueUncapped(percentage) == Canonical(Over100(percentage))

\* Math.min(percentage / 100, 1)
progressValue(percentage) ==
    LET v == Over100(percentage)
    IN  IF DoubleGreater(v, 1) THEN DoubleOne ELSE Canonical(v)

\* a plausible slip: the warning starts at 75 percent, not above it
barColorFromSeventyFive(percentage) ==
    IF DoubleGreater(percentage, 100) THEN "error"
    ELSE IF \/ DoubleGreater(percentage, 75)
            \/ Canonical(percentage) = [m |-> << 75 >>, e |-> 0]
         THEN "warning" ELSE "success"

\* isOverBudget ? 'error' : isWarning ? 'warning' : 'success'
barColor(percentage) ==
    IF DoubleGreater(percentage, 100) THEN "error"
    ELSE IF DoubleGreater(percentage, 75) THEN "warning" ELSE "success"

MaxAllocated == 12
MaxSpent == 20

\* a budget category with any small amounts, or a compiled-in one
Budgets ==
    {[Id |-> 0, Title |-> "", Allocated |-> a, Spent |-> s] :
        a \in 1..MaxAllocated, s \in 0..MaxSpent}
    \cup {Budget_Categories[i] : i \in 1..Len(Budget_Categories)}

\* the row of BudgetOverview for budget: the colour and the value of the
\* progress bar, the remaining amount, and the message bar if there is one
RenderBudget ==
    /\ budgetRow = Undefined
    /\ LET percentage == Times100(Quotient(budget.Spent, budget.Allocated))
           isOverBudget == DoubleGreater(percentage, 100)
       IN  budgetRow' =
             [kind |-> "row",
              value |-> progressValue(percentage),
              color |-> barColor(percentage),
              remaining |-> budget.Allocated - budget.Spent,
              message |-> IF isOverBudget
                          THEN [intent |-> "error",
                                exceededBy |-> budget.Spent - budget.Allocated]
                          ELSE Null]
    /\ UNCHANGED << budget, transaction, amountCell, hookVars, providerVars,
                    tableVars, appVars, changeVars, engine, instanceVars >>

(***************************************************************************)
(* TransactionTable: the Amount cell of one row                            *)
(***************************************************************************)
\* a plausible slip: zero counts as income for the colour
getAmountColorFromZero(amount) ==
    IF amount >= 0 THEN "#10b981" ELSE "#ef4444"

\* amount > 0 ? '#10b981' : '#ef4444'
getAmountColor(amount) ==
    IF amount > 0 THEN "#10b981" ELSE "#ef4444"

MaxAmount == 60

\* a compiled-in transaction, or one with any small amount
RowTransactions ==
    {Financial_Transactions[i] : i \in 1..Len(Financial_Transactions)}
    \cup {[Financial_Transactions[1] EXCEPT !.Id = 0, !.Amount = a] :
             a \in (0 - MaxAmount)..MaxAmount}

\* the Amount cell of the row of transaction: colour, prefix, Math.abs
RenderAmountCell ==
    /\ amountCell = Undefined
    /\ amountCell' =
          [kind |-> "cell",
           color |-> getAmountColor(transaction.Amount),
           prefix |-> IF transaction.Amount > 0 THEN "+" ELSE "",
           magnitude |-> Abs(transaction.Amount)]
    /\ UNCHANGED << transaction, budget, budgetRow, hookVars, providerVars,
                    tableVars, appVars, changeVars, engine, instanceVars >>

(***************************************************************************)
(* useSharePointData, one instance per list of the dashboard               *)
(***************************************************************************)
\* the three useSharePointData calls of FinanceFlowApp
Hooks == {"Financial_Transactions", "Budget_Categories", "Company_Metrics"}

\* window.location.origin
SiteUrl == "http://localhost:3000"

\* the transactions prop of TransactionTable
Transactions == data["Financial_Transactions"]

\* The effect of instance h runs after the first render: fetchData sets
\* loading and error and calls getListItems, which waits for its delay.
RunEffect(h) ==
    /\ fetchState[h] = "mounted"
    /\ loading' = [loading EXCEPT ![h] = TRUE]
    /\ error' = [error EXCEPT ![h] = Null]
    /\ fetchState' = [fetchState EXCEPT ![h] = "waiting"]
    /\ UNCHANGED << data, completions, promises, tableVars, appVars,
                    changeVars, engine,
                    instanceVars, rowVars >>

\* a plausible slip: one loading flag shared by the three instances
FetchCompletesSharedLoading(h) ==
    /\ fetchState[h] = "waiting"
    /\ LET result == getListItems(SiteUrl, Str(h), Undefined)
           newData == [data EXCEPT ![h] = result.value]
       IN  /\ data' = newData
           /\ error' = error
           /\ sortedTransactions' =
                  IF h = "Financial_Transactions"
                  THEN sortTransactions(newData[h], order, orderBy, engine)
                  ELSE sortedTransactions
    /\ loading' = [g \in Hooks |-> FALSE]
    /\ fetchState' = [fetchState EXCEPT ![h] = "done"]
    /\ completions' = Append(completions, h)
    /\ UNCHANGED << order, orderBy, promises, appVars, changeVars, engine,
                    instanceVars, rowVars >>

\* a plausible slip: setLoading(false) only after setData, no finally block,
\* and the await throws away the rest of the try block
FetchCompletesNoFinally(h) ==
    /\ fetchState[h] = "waiting"
    /\ fetchState' = [fetchState EXCEPT ![h] = "done"]
    /\ completions' = Append(completions, h)
    /\ UNCHANGED << data, error, loading, tableVars, promises, appVars,
                    changeVars, engine, instanceVars, rowVars >>

\* The delay of instance h is over: the await returns or throws, then
\* setData or setError, then the finally block; React renders once, and the
\* useMemo of TransactionTable runs again when its transactions changed.
FetchCompletes(h) ==
    /\ fetchState[h] = "waiting"
    /\ LET result == getListItems(SiteUrl, Str(h), Undefined)
           newData == IF result.state = "fulfilled"
                      THEN [data EXCEPT ![h] = result.value]
                      ELSE data
           memo == useMemo(newData[h], order, orderBy, engine)
       IN  /\ error' = IF result.state = "fulfilled"
                       THEN error
                       ELSE [error EXCEPT ![h] = Str("message")]
           /\ IF h = "Financial_Transactions"
              THEN /\ sortedTransactions' = memo.sortedTransactions
                   /\ data' = [newData EXCEPT ![h] = memo.transactions]
              ELSE /\ sortedTransactions' = sortedTransactions
                   /\ data' = newData
    /\ loading' = [loading EXCEPT ![h] = FALSE]
    /\ fetchState' = [fetchState EXCEPT ![h] = "done"]
    /\ completions' = Append(completions, h)
    /\ UNCHANGED << order, orderBy, promises, appVars, changeVars, engine,
                    instanceVars, rowVars >>

\* a plausible slip: the direction is toggled whatever column is clicked
handleRequestSortTogglesAlways(property) ==
    /\ ~loading["Financial_Transactions"]
    /\ LET newOrder == IF order = "asc" THEN "desc" ELSE "asc"
       IN  /\ order' = newOrder
           /\ orderBy' = property
           /\ sortedTransactions' =
                  sortTransactions(Transactions, newOrder, property, engine)
    /\ UNCHANGED << hookVars, promises, appVars, changeVars, engine,
                    instanceVars, rowVars >>

\* a plausible slip: order is missing from the dependencies of the useMemo,
\* so a change of direction alone does not recompute the view
handleRequestSortStaleMemo(property) ==
    /\ ~loading["Financial_Transactions"]
    /\ LET isAsc == orderBy = property /\ order = "asc"
           newOrder == IF isAsc THEN "desc" ELSE "asc"
       IN  /\ order' = newOrder
           /\ orderBy' = property
           /\ sortedTransactions' =
                  IF orderBy = property
                  THEN sortedTransactions
                  ELSE sortTransactions(Transactions, newOrder, property,
                                        engine)
    /\ UNCHANGED << hookVars, promises, appVars, changeVars, engine,
                    instanceVars, rowVars >>

\* A click on a column header; the headers are rendered once the table is
\* no longer loading.  The render that follows recomputes the useMemo.
handleRequestSort(property) ==
    /\ ~loading["Financial_Transactions"]
    /\ LET isAsc == orderBy = property /\ order = "asc"
           newOrder == IF isAsc THEN "desc" ELSE "asc"
           memo == useMemo(Transactions, newOrder, property, engine)
       IN  /\ order' = newOrder
           /\ orderBy' = property
           /\ sortedTransactions' = memo.sortedTransactions
           /\ data' = [data EXCEPT !["Financial_Transactions"] =
                                      memo.transactions]
    /\ UNCHANGED << loading, error, fetchState, completions, promises,
                    appVars, changeVars, engine, instanceVars, rowVars >>

handleMenuToggle ==
    /\ sidebarOpen' = ~sidebarOpen
    /\ UNCHANGED << isDarkMode, hookVars, promises, tableVars, changeVars,
                    engine,
                    instanceVars, rowVars >>

\* a plausible slip: the effect has no dependency array, so the render
\* after a toggle runs every effect again
handleThemeToggleRunsEffects ==
    /\ isDarkMode' = ~isDarkMode
    /\ fetchState' = [h \in Hooks |->
                         IF fetchState[h] = "done" THEN "mounted"
                         ELSE fetchState[h]]
    /\ UNCHANGED << sidebarOpen, data, loading, error, completions, promises,
                    tableVars, changeVars, engine, instanceVars, rowVars >>

handleThemeToggle ==
    /\ isDarkMode' = ~isDarkMode
    /\ UNCHANGED << sidebarOpen, hookVars, promises, tableVars, changeVars,
                    engine,
                    instanceVars, rowVars >>

(***************************************************************************)
(* useSharePointData, one instance whose listName may change               *)
(***************************************************************************)
MaxFetches == 3

\* the listName a caller may pass: any listTitle, and two more names that
\* mockData inherits
ListNames == ListTitles \cup {Str("valueOf"), Str("isPrototypeOf")}

False == [kind |-> "boolean", items |-> << >>, name |-> "false"]

\* an exception thrown while the state is computed
TypeError == [kind |-> "throw", items |-> << >>, name |-> "TypeError"]

IsObject(v) == v.kind \in {"array", "function", "object"}

\* f(prev) with this undefined, f one of the functions that mockData inherits
CallUpdater(f, prev) ==
    CASE f.name = "Object" ->
            IF IsObject(prev) THEN prev ELSE Obj("wrapper")
      [] f.name = "toString" -> Str("[object Undefined]")
      [] f.name = "isPrototypeOf" -> IF IsObject(prev) THEN TypeError ELSE False
      [] OTHER -> TypeError

\* setData(value): useState takes a function as an updater of the state
setData(prev, value) ==
    IF value.kind = "function" THEN CallUpdater(value, prev) ELSE value

\* useState([]), useState(true), useState(null).  mounted: no render has
\* thrown; caught: the catch block of fetchData has run; overlapped: a
\* fetchData call was made while an earlier one was waiting for its timer.
InstanceInit ==
    [data |-> Arr(<< >>), loading |-> TRUE, error |-> Null,
     mounted |-> TRUE, caught |-> FALSE, overlapped |-> FALSE]

\* The effect runs after a render with a new listName: fetchData sets loading
\* and error and calls getListItems, whose timer is queued behind the
\* timers of the earlier calls (all have the same delay).
InstanceRunEffect ==
    /\ effectDue
    /\ instance.mounted
    /\ instance' = [instance EXCEPT !.loading = TRUE, !.error = Null,
                                    !.overlapped = @ \/ fetches # << >>]
    /\ fetches' = Append(fetches, listName)
    /\ effectDue' = FALSE
    /\ started' = started + 1
    /\ UNCHANGED << listName, promises, hookVars, tableVars, appVars,
                    changeVars, engine,
                    rowVars >>

\* The oldest timer fires: the await returns or throws, then setData or
\* setError, then the finally block; React renders once.  A throwing updater
\* throws in that render, outside the try, and React unmounts the tree.
InstanceFetchCompletes ==
    /\ fetches # << >>
    /\ LET result == getListItems(SiteUrl, Head(fetches), Undefined)
           newData == setData(instance.data, result.value)
       IN  instance' =
             IF result.state # "fulfilled"
             THEN [instance EXCEPT !.error = IF instance.mounted
                                             THEN Str("message") ELSE @,
                                   !.loading = IF instance.mounted
                                               THEN FALSE ELSE @,
                                   !.caught = TRUE]
             ELSE IF ~instance.mounted THEN instance
             ELSE IF newData = TypeError
                  THEN [instance EXCEPT !.mounted = FALSE]
                  ELSE [instance EXCEPT !.data = newData, !.loading = FALSE]
    /\ fetches' = Tail(fetches)
    /\ UNCHANGED << listName, effectDue, started, promises, hookVars,
                    tableVars, appVars, changeVars, engine,
                    rowVars >>

\* the parent renders the instance with another listName
ChangeListName(name) ==
    /\ instance.mounted
    /\ ~effectDue
    /\ started < MaxFetches
    /\ name # listName
    /\ listName' = name
    /\ effectDue' = TRUE
    /\ UNCHANGED << instance, fetches, started, promises, hookVars,
                    tableVars, appVars, changeVars, engine,
                    rowVars >>

(***************************************************************************)
(* Initial states                                                          *)
(***************************************************************************)
\* no row of the budget overview or of the table is looked at
RowsIdle ==
    /\ budget = Budget_Categories[1]
    /\ budgetRow = Undefined
    /\ transaction = Financial_Transactions[1]
    /\ amountCell = Undefined

InstanceIdle ==
    /\ listName = Str("Financial_Transactions")
    /\ instance = InstanceInit
    /\ fetches = << >>
    /\ effectDue = FALSE
    /\ started = 0

ProviderIdle == promises = << >>

ChangeIdle ==
    /\ current = 0
    /\ previous = 0
    /\ changePercent = Undefined

\* useState('desc'), useState('Date'), and the useMemo of the first render
TableInit ==
    /\ order = "desc"
    /\ orderBy = "Date"
    /\ engine \in Engines
    /\ sortedTransactions =
           useMemo(Transactions, order, orderBy, engine).sortedTransactions

\* useState(true), useState(false)
AppInit ==
    /\ sidebarOpen = TRUE
    /\ isDarkMode = FALSE

\* useState([]), useState(true), useState(null); no effect has run yet
HooksInit ==
    /\ data = [h \in Hooks |-> Arr(<< >>)]
    /\ loading = [h \in Hooks |-> TRUE]
    /\ error = [h \in Hooks |-> Null]
    /\ fetchState = [h \in Hooks |-> "mounted"]
    /\ completions = << >>

(***************************************************************************)
(* The dashboard: three fetches, the table, the two toggles                *)
(***************************************************************************)
Init ==
    /\ HooksInit
    /\ TableInit
    /\ AppInit
    /\ ProviderIdle
    /\ ChangeIdle
    /\ InstanceIdle
    /\ RowsIdle

Next ==
    \/ \E h \in Hooks : RunEffect(h)
    \/ \E h \in Hooks : FetchCompletes(h)
    \/ \E property \in Headers : handleRequestSort(property)
    \/ handleMenuToggle
    \/ handleThemeToggle

Spec == Init /\ [][Next]_vars

\* the part of FetchCompletes(h) that tells the step from every other one
TimerFires(h) ==
    /\ fetchState[h] = "waiting"
    /\ fetchState' = [fetchState EXCEPT ![h] = "done"]

\* React runs a pending effect after the commit, and a timer that was set
\* fires in the end.  A step of Next is a TimerFires(h) step exactly when it
\* is a FetchCompletes(h) step, and the two are enabled in the same states.
FairSpec ==
    /\ Spec
    /\ \A h \in Hooks :
          WF_fetchState(RunEffect(h)) /\ WF_fetchState(TimerFires(h))

(***************************************************************************)
(* The provider alone, called with any arguments                           *)
(***************************************************************************)
InitProvider ==
    /\ ProviderIdle
    /\ HooksInit
    /\ TableInit
    /\ engine = "binaryInsertion"
    /\ AppInit
    /\ ChangeIdle
    /\ InstanceIdle
    /\ RowsIdle

NextProvider ==
    \/ \E siteUrl \in SiteUrls, listTitle \in ListTitles,
          selectFields \in SelectFields :
            CallGetListItems(siteUrl, listTitle, selectFields)
    \/ \E i \in 1..MaxCalls : DelayElapsed(i)
    \/ \E i \in 1..MaxCalls : CallerReverses(i)

SpecProvider == InitProvider /\ [][NextProvider]_vars

(***************************************************************************)
(* The table alone, given any sequence of records                          *)
(***************************************************************************)
MaxLen == 3

\* a record that ties with a compiled-in one in every sortable field
ExtraTransaction ==
    [Id |-> 5, Title |-> "Office Operations", Amount |-> -8500,
     Category |-> "Technology", Date |-> "2025-06-01T00:00:00Z",
     Status |-> "Pending"]

SampleTransactions ==
    {Financial_Transactions[i] : i \in 1..Len(Financial_Transactions)}
        \cup {ExtraTransaction}

\* the sequences of at most MaxLen different sample records
SampleSequences ==
    UNION { {s \in [1..n -> SampleTransactions] :
                \A i, j \in 1..n : i # j => s[i] # s[j]} : n \in 0..MaxLen }

InitSort ==
    /\ \E s \in SampleSequences :
          data = [h \in Hooks |->
                     IF h = "Financial_Transactions" THEN Arr(s) ELSE Arr(<< >>)]
    /\ loading = [h \in Hooks |-> FALSE]
    /\ error = [h \in Hooks |-> Null]
    /\ fetchState = [h \in Hooks |-> "done"]
    /\ completions = << >>
    /\ TableInit
    /\ AppInit
    /\ ProviderIdle
    /\ ChangeIdle
    /\ InstanceIdle
    /\ RowsIdle

NextSort == \E property \in Headers : handleRequestSort(property)

SpecSort == InitSort /\ [][NextSort]_vars

(***************************************************************************)
(* The percent change alone, given any two integers                        *)
(***************************************************************************)
InitChange ==
    /\ \E pair \in ChangeArguments :
          /\ current = pair[1]
          /\ previous = pair[2]
    /\ changePercent = Undefined
    /\ HooksInit
    /\ TableInit
    /\ engine = "binaryInsertion"
    /\ AppInit
    /\ ProviderIdle
    /\ InstanceIdle
    /\ RowsIdle

NextChange == RenderChange

SpecChange == InitChange /\ [][NextChange]_vars

(***************************************************************************)
(* One hook instance alone, rendered with any listName, any number of times *)
(***************************************************************************)
InitInstance ==
    /\ RowsIdle
    /\ listName \in ListNames
    /\ instance = InstanceInit
    /\ fetches = << >>
    /\ effectDue = TRUE
    /\ started = 0
    /\ HooksInit
    /\ TableInit
    /\ engine = "binaryInsertion"
    /\ AppInit
    /\ ProviderIdle
    /\ ChangeIdle

NextInstance ==
    \/ InstanceRunEffect
    \/ InstanceFetchCompletes
    \/ \E name \in ListNames : ChangeListName(name)

SpecInstance == InitInstance /\ [][NextInstance]_vars

(***************************************************************************)
(* One row of the budget overview alone, given any budget                  *)
(***************************************************************************)
InitBudget ==
    /\ budget \in Budgets
    /\ budgetRow = Undefined
    /\ transaction = Financial_Transactions[1]
    /\ amountCell = Undefined
    /\ HooksInit
    /\ TableInit
    /\ engine = "binaryInsertion"
    /\ AppInit
    /\ ProviderIdle
    /\ ChangeIdle
    /\ InstanceIdle

NextBudget == RenderBudget

SpecBudget == InitBudget /\ [][NextBudget]_vars

(***************************************************************************)
(* One Amount cell alone, given any transaction                            *)
(***************************************************************************)
InitAmount ==
    /\ transaction \in RowTransactions
    /\ amountCell = Undefined
    /\ budget = Budget_Categories[1]
    /\ budgetRow = Undefined
    /\ HooksInit
    /\ TableInit
    /\ engine = "binaryInsertion"
    /\ AppInit
    /\ ProviderIdle
    /\ ChangeIdle
    /\ InstanceIdle

NextAmount == RenderAmountCell

SpecAmount == InitAmount /\ [][NextAmount]_vars

(***************************************************************************)
(* Properties of the provider (SpecProvider)                               *)
(***************************************************************************)
Recognised(listTitle) == listTitle.kind = "string" /\ listTitle.name \in OwnKeys

CompiledIn(name) ==
    CASE name = "Financial_Transactions" -> Financial_Transactions
      [] name = "Budget_Categories" -> Budget_Categories
      [] name = "Company_Metrics" -> Company_Metrics

\* C1: for each of the three recognised names, whatever siteUrl and
\* selectFields, getListItems resolves to a result whose value is the
\* compiled-in sequence of that name: the same four records in the same order.
C1_RecognisedGivesCompiledIn ==
    \A i \in 1..Len(promises) :
        (promises[i].state # "pending" /\ Recognised(promises[i].listTitle)) =>
            /\ promises[i].state = "fulfilled"
            /\ promises[i].value.kind = "array"
            /\ Len(promises[i].value.items) = 4
            /\ promises[i].value.items = CompiledIn(promises[i].listTitle.name)

C1_Witness ==
    \E i \in 1..Len(promises) :
        /\ promises[i].state = "fulfilled"
        /\ promises[i].listTitle = Str("Company_Metrics")
        /\ promises[i].siteUrl = "https://contoso.sharepoint.com"
        /\ promises[i].selectFields = Str("Id,Title")
        /\ promises[i].value.items = Company_Metrics

\* C2: for every name that is not one of the three recognised names, the
\* empty string, undefined, a name in another case and the names every object
\* inherits included, the result's value is the empty sequence.
C2_UnrecognisedGivesEmpty ==
    \A i \in 1..Len(promises) :
        (promises[i].state # "pending" /\ ~Recognised(promises[i].listTitle)) =>
            promises[i].value = Arr(<< >>)

\* C3: for every name, recognised or not, a call never rejects and always
\* completes with a result that carries a value sequence.
C3_NeverFailsAndCarriesSequence ==
    \A i \in 1..Len(promises) :
        /\ promises[i].state \in {"pending", "fulfilled"}
        /\ promises[i].state = "fulfilled" => promises[i].value.kind = "array"

(***************************************************************************)
(* Properties of the table sort (SpecSort, Spec)                           *)
(***************************************************************************)
NoTies(items, by) ==
    \A i, j \in 1..Len(items) : i # j => items[i][by] # items[j][by]

Opposite(ord) == IF ord = "asc" THEN "desc" ELSE "asc"

\* C4: sorting the output of the table sort again by the same field and
\* direction yields the same sequence, record for record, also when several
\* records have equal values in the field.
C4_SortIdempotent ==
    sortTransactions(Arr(sortedTransactions), order, orderBy, engine)
        = sortedTransactions

\* C5: when the values in the chosen field are pairwise distinct, the view
\* sorted in one direction is exactly the reverse of the sequence sorted by
\* the same field in the opposite direction.
C5_OppositeDirectionsReverse ==
    NoTies(Transactions.items, orderBy) =>
        sortedTransactions =
            Reverse(sortTransactions(Transactions, Opposite(order), orderBy,
                                     engine))

C5_Witness ==
    /\ order = "desc"
    /\ orderBy = "Amount"
    /\ engine = "linearInsertion"
    /\ Len(Transactions.items) = 3
    /\ NoTies(Transactions.items, orderBy)
    /\ sortedTransactions # Transactions.items
    /\ sortedTransactions # Reverse(Transactions.items)

\* C6: the four compiled-in transactions, amounts 125000, -15000, -8500,
\* -3200 in fetch order, sorted by Amount ascending are in the amount order
\* -15000, -8500, -3200, 125000, that is record Ids 2, 3, 4, 1.
C6_AmountAscending ==
    (fetchState["Financial_Transactions"] = "done"
        /\ orderBy = "Amount" /\ order = "asc") =>
        /\ [i \in 1..Len(Transactions.items) |-> Transactions.items[i].Amount]
               = << 125000, -15000, -8500, -3200 >>
        /\ [i \in 1..Len(sortedTransactions) |-> sortedTransactions[i].Amount]
               = << -15000, -8500, -3200, 125000 >>
        /\ [i \in 1..Len(sortedTransactions) |-> sortedTransactions[i].Id]
               = << 2, 3, 4, 1 >>

C6_Witness ==
    /\ fetchState["Financial_Transactions"] = "done"
    /\ orderBy = "Amount"
    /\ order = "asc"
    /\ engine = "linearInsertion"
    /\ Len(sortedTransactions) = 4

(***************************************************************************)
(* Properties of the percent change (SpecChange)                           *)
(***************************************************************************)
Rendered == changePercent # Undefined

\* C7, as claimed: percent change returns 13.6 for (125000, 110000) and
\* -10.3 for (52000, 58000), and the result is the number itself.
C7_ReturnsTheNumber ==
    Rendered =>
        /\ (current = 125000 /\ previous = 110000) =>
               changePercent = Number(FALSE, 136)
        /\ (current = 52000 /\ previous = 58000) =>
               changePercent = Number(TRUE, 103)

\* C7, amended: percent change returns the string "13.6" for (125000, 110000)
\* and the string "-10.3" for (52000, 58000); the string is not a number, and
\* compared with == to the numeric literal 13.6 or -10.3 it is equal.
C7_ReturnsTheDecimalString ==
    Rendered =>
        /\ (current = 125000 /\ previous = 110000) =>
               /\ changePercent = FixedString(FALSE, 136)
               /\ changePercent.kind = "string"
               /\ LooseEquals(changePercent, Number(FALSE, 136))
        /\ (current = 52000 /\ previous = 58000) =>
               /\ changePercent = FixedString(TRUE, 103)
               /\ changePercent.kind = "string"
               /\ LooseEquals(changePercent, Number(TRUE, 103))

C7_Witness ==
    /\ current = 52000
    /\ previous = 58000
    /\ Rendered
    /\ changePercent.sign = "-"

\* (current - previous) * 100 / previous in tenths, rounded to the nearest
\* integer, a tie away from zero; and whether it is a tie
ExactTenths(cur, prev) ==
    (2000 * Abs(cur - prev) + Abs(prev)) \div (2 * Abs(prev))
ExactIsTie(cur, prev) ==
    (2000 * Abs(cur - prev)) % (2 * Abs(prev)) = Abs(prev)
ExactNegative(cur, prev) == (cur - prev < 0) # (prev < 0)

\* C8, as claimed: for all integers current and previous with previous # 0,
\* percent change equals the exact (current - previous) * 100 / previous
\* rounded to the nearest tenth, ties rounded away from zero.
C8_RoundsTiesAwayFromZero ==
    (Rendered /\ previous # 0) =>
        LooseEquals(changePercent,
                    Number(ExactNegative(current, previous),
                           ExactTenths(current, previous)))

\* C8, amended: for all integers current and previous with previous # 0,
\* percent change is the decimal string of the exact quotient rounded to the
\* nearest tenth when the exact quotient is not midway between two tenths;
\* when it is midway, the result is one of these two tenths.
C8_RoundsToNearestTenth ==
    (Rendered /\ previous # 0) =>
        /\ changePercent.form = "fixed"
        /\ \/ LooseEquals(changePercent,
                          Number(ExactNegative(current, previous),
                                 ExactTenths(current, previous)))
           \/ /\ ExactIsTie(current, previous)
              /\ LooseEquals(changePercent,
                             Number(ExactNegative(current, previous),
                                    ExactTenths(current, previous) - 1))

C8_Witness ==
    /\ previous = -80
    /\ current = -57
    /\ ExactIsTie(current, previous)
    /\ ExactTenths(current, previous) = 288
    /\ changePercent = FixedString(TRUE, 287)

\* C9: with previous = 0 percent change returns a dedicated sentinel; for no
\* current is the result Infinity, -Infinity or NaN, as a number or as text.
C9_ZeroPreviousGivesSentinel ==
    (Rendered /\ previous = 0) =>
        /\ changePercent.form \notin {"Infinity", "NaN"}
        /\ ToNumber(changePercent).form = "finite"

(***************************************************************************)
(* Properties of the three fetches of the dashboard (Spec)                 *)
(***************************************************************************)
AllDone == \A h \in Hooks : fetchState[h] = "done"

\* the holder of instance g is left as it was
HolderUnchanged(g) ==
    /\ data'[g] = data[g]
    /\ loading'[g] = loading[g]
    /\ error'[g] = error[g]
    /\ fetchState'[g] = fetchState[g]

\* C10: the completion of the fetch of one list changes only that list's
\* holder and leaves the other two unchanged, and the state reached after all
\* three completed is the same whatever the order of the completions.
C10_FetchesIndependent ==
    /\ [][\A h \in Hooks :
             (fetchState[h] = "waiting" /\ fetchState'[h] = "done") =>
                 /\ data'[h] = Arr(CompiledIn(h))
                 /\ loading'[h] = FALSE
                 /\ \A g \in Hooks \ {h} : HolderUnchanged(g)]_vars
    /\ [](AllDone =>
             /\ data = [h \in Hooks |-> Arr(CompiledIn(h))]
             /\ loading = [h \in Hooks |-> FALSE]
             /\ error = [h \in Hooks |-> Null])

C10_Witness ==
    /\ AllDone
    /\ completions = << "Company_Metrics", "Budget_Categories",
                        "Financial_Transactions" >>
    /\ \A h \in Hooks : ~loading[h] /\ data[h] = Arr(CompiledIn(h))

(***************************************************************************)
(* Properties of one hook instance (SpecInstance)                          *)
(***************************************************************************)
\* C11: the error flag is dead: in every reachable state of a
\* useSharePointData instance, for every listName, recognised or not, and
\* after any number of fetches, error is null, and the catch block that sets
\* it has never run.
C11_ErrorIsDead ==
    /\ instance.error = Null
    /\ ~instance.caught

\* every fetch is over, the last one for a name that is not recognised
C11_Witness ==
    /\ started = MaxFetches
    /\ fetches = << >>
    /\ listName = Str("toString")
    /\ instance.mounted
    /\ ~instance.loading
    /\ instance.data = Str("[object Undefined]")

\* no render has changed listName: at most the first fetch has been started
NeverChanged == started = 0 \/ (started = 1 /\ ~effectDue)

\* C12: for an instance whose listName never changes, loading = true implies
\* that data is the empty sequence and that the delay is not over;
\* loading = false implies that data is exactly what the provider returns
\* for listName.
C12_LoadingTracksDelivery ==
    (NeverChanged /\ instance.mounted) =>
        /\ instance.loading =>
              /\ instance.data = Arr(<< >>)
              /\ effectDue \/ fetches # << >>
        /\ ~instance.loading =>
              /\ fetches = << >>
              /\ instance.data = getListItems(SiteUrl, listName, Undefined).value

(***************************************************************************)
(* Properties of the dashboard's fetches in time (FairSpec)                *)
(***************************************************************************)
\* C13: every fetch that is started completes: for each of the three
\* datasets the loading flag becomes false at some point, and from then on
\* it stays false.
C13_LoadingEventuallyStaysFalse ==
    \A h \in Hooks : <>[](~loading[h])

C13_Witness ==
    /\ \A h \in Hooks : ~loading[h] /\ fetchState[h] = "done"
    /\ Len(completions) = 3

Occurrences(s, x) == Cardinality({i \in 1..Len(s) : s[i] = x})

Rearrangement(s, t) ==
    /\ Len(s) = Len(t)
    /\ \A i \in 1..Len(t) : Occurrences(s, t[i]) = Occurrences(t, t[i])

\* C16: for every sequence of records, every field and either direction,
\* the sorted view is a rearrangement of exactly the input records, none
\* lost and none duplicated, and every adjacent pair is in order: the field
\* values never decrease for 'asc' and never increase for 'desc'.
C16_SortedRearrangement ==
    /\ Rearrangement(sortedTransactions, Transactions.items)
    /\ \A i \in 1..(Len(sortedTransactions) - 1) :
          LET x == sortedTransactions[i][orderBy]
              y == sortedTransactions[i + 1][orderBy]
          IN  IF order = "asc"
              THEN ~LessThan(y, x, orderBy)
              ELSE ~GreaterThan(y, x, orderBy)

\* three records, two of them tied in the sort field, in another order
\* than they came
C16_Witness ==
    /\ Len(sortedTransactions) = MaxLen
    /\ orderBy = "Status"
    /\ order = "asc"
    /\ ~NoTies(sortedTransactions, orderBy)
    /\ sortedTransactions # Transactions.items
    /\ sortedTransactions[1].Status # sortedTransactions[MaxLen].Status
    /\ engine = "linearInsertion"

\* the place of record x in sequence s
Position(s, x) == CHOOSE i \in 1..Len(s) : s[i] = x

\* C17: the comparator is a consistent ordering for every pair of records
\* and either direction: compare(a, b) < 0 exactly when compare(b, a) > 0,
\* two records with equal values in the sort field are reported as equal,
\* and tied records keep their input order in the sorted view.
C17_ComparatorConsistent ==
    LET items == Transactions.items
    IN  \A i, j \in 1..Len(items) :
            i < j =>
                LET a == items[i]
                    b == items[j]
                    ab == compare(a, b, order, orderBy)
                    ba == compare(b, a, order, orderBy)
                IN  /\ (ab < 0) <=> (ba > 0)
                    /\ (ba < 0) <=> (ab > 0)
                    /\ a[orderBy] = b[orderBy] =>
                          /\ ab = 0
                          /\ ba = 0
                          /\ Position(sortedTransactions, a) <
                                Position(sortedTransactions, b)

(***************************************************************************)
(* The time a Date string stands for                                       *)
(***************************************************************************)
\* the decimal number written in places from..to of string s
Digits(s, from, to) ==
    LET u == CodeUnits[s]
        F[i \in (from - 1)..to] ==
            IF i < from THEN 0 ELSE 10 * F[i - 1] + (u[i] - 48)
    IN  F[to]

\* the days from 1970-01-01 to the day d of month m of year y
DaysFromCivil(y, m, d) ==
    LET year == IF m <= 2 THEN y - 1 ELSE y
        era == year \div 400
        yearOfEra == year - era * 400
        dayOfYear == (153 * (IF m > 2 THEN m - 3 ELSE m + 9) + 2) \div 5 + d - 1
        dayOfEra == yearOfEra * 365 + yearOfEra \div 4 - yearOfEra \div 100
                        + dayOfYear
    IN  era * 146097 + dayOfEra - 719468

\* new Date(s) for s of the form YYYY-MM-DDTHH:mm:ssZ: seconds since the epoch
DateParse(s) ==
    DaysFromCivil(Digits(s, 1, 4), Digits(s, 6, 7), Digits(s, 9, 10)) * 86400
        + Digits(s, 12, 13) * 3600 + Digits(s, 15, 16) * 60 + Digits(s, 18, 19)

Ids(s) == [i \in 1..Len(s) |-> s[i].Id]

(***************************************************************************)
(* Properties of the dashboard's table (Spec), continued                   *)
(***************************************************************************)
\* C18: for the compiled-in transactions, the order of the Date strings is
\* the order in time of the dates they stand for, and the first view of the
\* table (orderBy 'Date', order 'desc') lists the records 4, 3, 2, 1, the
\* newest first.
C18_DateOrderIsChronological ==
    LET items == Transactions.items
    IN  /\ \A i, j \in 1..Len(items) :
              StringLess(items[i].Date, items[j].Date) <=>
                  DateParse(items[i].Date) < DateParse(items[j].Date)
        /\ (fetchState["Financial_Transactions"] = "done"
                /\ orderBy = "Date" /\ order = "desc") =>
              /\ Ids(sortedTransactions) = << 4, 3, 2, 1 >>
              /\ \A i \in 1..3 :
                    DateParse(sortedTransactions[i].Date) >
                        DateParse(sortedTransactions[i + 1].Date)

\* the first view, before any click
C18_Witness ==
    /\ fetchState["Financial_Transactions"] = "done"
    /\ fetchState["Company_Metrics"] = "waiting"
    /\ orderBy = "Date"
    /\ order = "desc"
    /\ Ids(sortedTransactions) = << 4, 3, 2, 1 >>
    /\ DateParse(sortedTransactions[1].Date) = 1748995200

\* C19: a header click handleRequestSort(p) sets orderBy to p, and sets
\* order to 'desc' exactly when before the click orderBy was p and order
\* was 'asc'; in every other case order becomes 'asc'.  In every reachable
\* state order is 'asc' or 'desc' and orderBy is one of the five headers.
C19_HeaderClickRule ==
    /\ [][\A p \in Headers :
            handleRequestSort(p) =>
                /\ orderBy' = p
                /\ (order' = "desc") <=> (orderBy = p /\ order = "asc")
                /\ (order' = "asc") <=> ~(orderBy = p /\ order = "asc")]_vars
    /\ [][(order' # order \/ orderBy' # orderBy) =>
            order' = IF orderBy' = orderBy /\ order = "asc"
                     THEN "desc" ELSE "asc"]_vars
    /\ [](order \in {"asc", "desc"} /\ orderBy \in Headers)

\* two clicks on Amount: ascending first, then descending
C19_Witness ==
    /\ orderBy = "Amount"
    /\ order = "desc"
    /\ Ids(sortedTransactions) = << 1, 4, 3, 2 >>

\* C20: the memoised sorted view is never stale: after any sequence of
\* header clicks, and after the fetch has completed, the rows displayed are
\* the result of sorting the transactions now held by the current orderBy
\* and order.
C20_ViewNeverStale ==
    sortedTransactions = sortTransactions(Transactions, order, orderBy, engine)

\* the fetch is over and the Title header was clicked twice
C20_Witness ==
    /\ fetchState["Financial_Transactions"] = "done"
    /\ Len(sortedTransactions) = 4
    /\ orderBy = "Title"
    /\ order = "desc"
    /\ Ids(sortedTransactions) = << 4, 1, 2, 3 >>

(***************************************************************************)
(* Properties of one hook instance whose listName changes (SpecInstance)   *)
(***************************************************************************)
\* what the provider returns for the listName of the last render
ProvidedForListName == getListItems(SiteUrl, listName, Undefined).value

\* no effect is due and no fetchData call waits for its timer
Settled == fetches = << >> /\ ~effectDue

\* C21: when listName changed while an earlier fetch was in flight, then
\* once every fetch in flight has completed the data held is what the
\* provider returns for the most recent listName, never what it returns for
\* an earlier one.
C21_LatestListNameWins ==
    (instance.overlapped /\ Settled /\ instance.mounted) =>
        instance.data = ProvidedForListName

\* C22: in every reachable state of an instance whose listName may change,
\* loading = false implies that no fetch of the instance is in flight and
\* that data is what the provider returns for the current listName.
C22_NotLoadingMeansCurrent ==
    (instance.mounted /\ ~instance.loading) =>
        /\ fetches = << >>
        /\ instance.data = ProvidedForListName

(***************************************************************************)
(* Properties of the dashboard (Spec), continued                           *)
(***************************************************************************)
\* a toggle of the theme or the sidebar, or a click on a sort header
UIEvent ==
    \/ sidebarOpen' # sidebarOpen
    \/ isDarkMode' # isDarkMode
    \/ order' # order
    \/ orderBy' # orderBy

\* how many fetches of instance h have completed
Completed(h) == Cardinality({i \in 1..Len(completions) : completions[i] = h})

\* C23: each dataset is fetched exactly once per mounted dashboard: a UI
\* event (theme toggle, sidebar toggle, header click) issues no fetch, and
\* after its fetch no dataset's loading flag returns to true and no
\* dataset's data changes.
C23_FetchedOnce ==
    /\ [][UIEvent => UNCHANGED << data, loading, fetchState, completions >>]_vars
    /\ [][\A h \in Hooks :
            /\ fetchState[h] = "done" =>
                  /\ fetchState'[h] = "done"
                  /\ data'[h] = data[h]
                  /\ ~loading'[h]
            /\ fetchState[h] = "waiting" => fetchState'[h] # "mounted"]_vars
    /\ [](\A h \in Hooks :
            Completed(h) = IF fetchState[h] = "done" THEN 1 ELSE 0)

\* every fetch is over; both toggles and a header have been used since
C23_Witness ==
    /\ \A h \in Hooks : fetchState[h] = "done" /\ Completed(h) = 1
    /\ isDarkMode
    /\ ~sidebarOpen
    /\ order = "asc"
    /\ orderBy = "Category"
    /\ Transactions = Arr(Financial_Transactions)

(***************************************************************************)
(* Properties of a budget row (SpecBudget)                                 *)
(***************************************************************************)
\* the status the compiled-in category i is to show
CompiledInStatus == << "warning", "warning", "success", "success" >>

\* C24: for every budget category with allocated > 0 and spent >= 0 exactly
\* one status is shown: 'error', with the 'Budget exceeded' message, exactly
\* when spent > allocated; 'warning' exactly when spent is more than 75% of
\* allocated and at most allocated; 'success' otherwise.  The message states
\* spent - allocated.  The compiled-in categories show warning, warning,
\* success, success and no message.
C24_OneStatusPerBudget ==
    budgetRow # Undefined =>
        LET over == budget.Spent > budget.Allocated
            above75 == 4 * budget.Spent > 3 * budget.Allocated
        IN  /\ budgetRow.color \in {"error", "warning", "success"}
            /\ budgetRow.color = "error" <=> over
            /\ budgetRow.color = "warning" <=> (above75 /\ ~over)
            /\ budgetRow.color = "success" <=> ~above75
            /\ budgetRow.message # Null <=> over
            /\ over => /\ budgetRow.message.intent = "error"
                       /\ budgetRow.message.exceededBy =
                             budget.Spent - budget.Allocated
            /\ \A i \in 1..Len(Budget_Categories) :
                  budget = Budget_Categories[i] =>
                      /\ budgetRow.color = CompiledInStatus[i]
                      /\ budgetRow.message = Null

\* a row over its budget by 8
C24_Witness ==
    /\ budgetRow # Undefined
    /\ budget.Allocated = MaxAllocated
    /\ budget.Spent = MaxSpent
    /\ budgetRow.color = "error"
    /\ budgetRow.message # Null
    /\ budgetRow.message.exceededBy = MaxSpent - MaxAllocated

\* spent / allocated as a double, capped at 1
CappedQuotient ==
    IF budget.Spent >= budget.Allocated THEN DoubleOne
    ELSE Canonical(Quotient(budget.Spent, budget.Allocated))

\* the same double with an m of DoublePrecision bits
Widened(x) ==
    IF x.m = << >> THEN DoubleZero
    ELSE LET k == DoublePrecision - BitLength(x.m)
         IN  [m |-> ShiftLeft(x.m, k), e |-> x.e - k]

\* x and y are the same double or neighbours among the doubles
AtMostOneUlpApart(x, y) ==
    LET wx == Widened(x)
        wy == Widened(y)
    IN  /\ wx.e = wy.e
        /\ \/ wx.m = wy.m
           \/ Increment(wx.m) = wy.m
           \/ Increment(wy.m) = wx.m

\* C25: for every budget category with allocated > 0 and spent >= 0, over
\* budget or not, the value passed to the progress bar is
\* min(spent / allocated, 1), and so lies in the range 0..1.
C25_ValueIsCappedQuotient ==
    budgetRow # Undefined =>
        /\ budgetRow.value = CappedQuotient
        /\ ~DoubleGreater(budgetRow.value, 1)

\* C25, amended: the value passed to the progress bar lies in the range
\* 0..1, is 1 exactly when spent >= allocated, is 0 exactly when spent is 0,
\* and is otherwise spent / allocated or a double next to it, since
\* percentage / 100 rounds a second and a third time.
C25_ValueIsCappedAndNearQuotient ==
    budgetRow # Undefined =>
        /\ ~DoubleGreater(budgetRow.value, 1)
        /\ budgetRow.value = DoubleOne <=> budget.Spent >= budget.Allocated
        /\ budgetRow.value = DoubleZero <=> budget.Spent = 0
        /\ AtMostOneUlpApart(budgetRow.value, CappedQuotient)

\* 1 of 3 spent: the value is the double below the double nearest to 1/3
C25_Witness ==
    /\ budgetRow # Undefined
    /\ budget.Spent = 1
    /\ budget.Allocated = 3
    /\ budgetRow.value # CappedQuotient
    /\ Increment(Widened(budgetRow.value).m) = Widened(CappedQuotient).m

(***************************************************************************)
(* Properties of an Amount cell (SpecAmount)                               *)
(***************************************************************************)
Green == "#10b981"
Red == "#ef4444"

\* C26: the sign of the amount alone classifies a transaction, and colour
\* and prefix agree for every amount: green and '+' exactly when
\* amount > 0, red and no '+' otherwise, also for amount 0; the magnitude
\* displayed is the absolute value of the amount.
C26_SignClassifies ==
    amountCell # Undefined =>
        LET amount == transaction.Amount
        IN  /\ amountCell.color \in {Green, Red}
            /\ amountCell.prefix \in {"+", ""}
            /\ amountCell.color = Green <=> amount > 0
            /\ amountCell.prefix = "+" <=> amount > 0
            /\ amountCell.color = Green <=> amountCell.prefix = "+"
            /\ amountCell.magnitude >= 0
            /\ amountCell.magnitude \in {amount, 0 - amount}

\* amount 0 is shown as an expense
C26_Witness ==
    /\ amountCell # Undefined
    /\ transaction.Amount = 0
    /\ amountCell.color = Red
    /\ amountCell.prefix = ""
    /\ amountCell.magnitude = 0

(***************************************************************************)
(* Properties of the trend chip (SpecChange)                               *)
(***************************************************************************)
\* the chip of the percentage held in changePercent
Chip == trendChip(changePercent)

ChipIsUp ==
    /\ Chip.icon = "TrendingUpIcon"
    /\ Chip.label[1] = "+"
    /\ Chip.backgroundColor = "#10b981"

ChipIsDown ==
    /\ Chip.icon = "TrendingDownIcon"
    /\ Chip.label[1] = ""
    /\ Chip.backgroundColor = "#ef4444"

\* C27: for every metric with previous # 0 the trend chip shows the upward
\* trend (up icon, '+' prefix, green) exactly when current > previous, and
\* the downward trend otherwise; for the compiled-in integer metrics the
\* chips read +13.6%, -10.3% and +40.4%.
C27_TrendFollowsValues ==
    (Rendered /\ previous # 0) =>
        /\ ChipIsUp <=> current > previous
        /\ ChipIsDown <=> ~(current > previous)
        /\ (current = 125000 /\ previous = 110000) =>
              Chip.label = << "+", FixedString(FALSE, 136), "%" >>
        /\ (current = 52000 /\ previous = 58000) =>
              Chip.label = << "", FixedString(TRUE, 103), "%" >>
        /\ (current = 73000 /\ previous = 52000) =>
              Chip.label = << "+", FixedString(FALSE, 404), "%" >>

=============================================================================
